---- MODULE Spec2Model ----
(***************************************************************************)
(* bithou/nodetools.py: the node traversal (traverse, NodeTraverse) over a *)
(* host scene graph.  The host scene is edited before the generator is     *)
(* started and does not change during a run; every host accessor the       *)
(* traversal calls reads the variable hou.                                 *)
(***************************************************************************)
EXTENDS Integers, Sequences, FiniteSets, TLC

\* Size of a host scene: the number of ways it departs from the plain scene
\* (no connection, no reference, no flag set, default arguments).  Scenes that
\* use the features of one area only may have FocusExtra more.
MaxFeatures == 2
FocusExtra == MaxFeatures + 2

Nodes == {1, 2, 3}
\* Python's None, where a host accessor returns no node.
None == 0 - 1

VARIABLES
    hou,                \* the host scene: the set of features it has
    root,               \* traverse's arguments
    respect_bypass,
    respect_lock,
    ignore_hda_locked,
    ignore_categories,
    include_root,
    _traversed,         \* module global, path -> tuple of referenced nodes
    roots,              \* traverse's locals
    skip_root,
    traversed,          \* the NodeTraverse objects of the last expansion
    pc,                 \* "call", "loop" (suspended at yield), "done", "raised"
    yielded,            \* the tuple yielded last
    began,              \* something has been yielded
    first,              \* the first tuple yielded
    seen,               \* the nodes of all tuples yielded
    repeated,           \* the nodes that were in more than one yielded tuple
    emptyBefore,        \* some tuple before the last yielded one was empty
    memoAt,             \* memoAt[i]: keys of _traversed when traversed[i] was filtered
    source,             \* the roots that the last expansion expanded
    cursor,             \* the place in FeatureList of the feature added last
    scope               \* the scenes that are built: "all" or "loops"

args == <<root, respect_bypass, respect_lock, ignore_hda_locked, include_root>>
hist == <<yielded, began, first, seen, repeated, emptyBefore, memoAt, source>>
vars == <<hou, args, ignore_categories, _traversed, roots, skip_root, traversed, pc, hist,
          cursor, scope>>

----------------------------------------------------------------------------
\* Sequences and dicts

Range(s) == {s[i] : i \in DOMAIN s}

RECURSIVE SetToSeq(_)
SetToSeq(S) ==
    IF S = {} THEN <<>>
    ELSE LET x == CHOOSE x \in S : \A y \in S : x <= y
         IN  <<x>> \o SetToSeq(S \ {x})

EmptyDict == [p \in {} |-> <<>>]

\* dict.update(other)
DictUpdate(d, other) ==
    [p \in DOMAIN d \cup DOMAIN other |-> IF p \in DOMAIN other THEN other[p] ELSE d[p]]

\* dict.get(key, default)
DictGet(d, key, default) == IF key \in DOMAIN d THEN d[key] ELSE default

\* list.extend(items): what roots would be as a list
ListExtend(s, items) == s \o items

\* set.update(items), the set kept as the sequence of its elements
RECURSIVE SetUpdate(_, _)
SetUpdate(s, items) ==
    IF items = <<>> THEN s
    ELSE SetUpdate(IF Head(items) \in Range(s) THEN s ELSE Append(s, Head(items)),
                   Tail(items))

\* The orders in which a Python set of nodes may be iterated.
Orders(s) == {[i \in 1..Len(s) |-> s[p[i]]] : p \in Permutations(1..Len(s))}

----------------------------------------------------------------------------
\* The host scene.  A feature is one departure from the plain scene:
\*   input(n, m)    m (another node or None) is among node n's inputs()
\*   ref(n, m)      a parameter of n references m
\*   output(n, m)   n holds SOPs and m is a connected 'output' node inside it
\*   render(n, m)   n holds SOPs and m (a node or None) is its renderNode()
\*   display(n, m)  n holds DOPs and m is its displayNode()
\*   bypassed(n), noIsBypassed(n), hardLocked(n), noIsHardLocked(n),
\*   lockedHDA(n), manager(n), vop(n), sop(n): what node n reports
\*   and the arguments of traverse that are not the defaults.

NodeOrNone == Nodes \cup {None}

EdgeFeatures ==
    [k : {"ref"}, n : Nodes, m : Nodes]
    \cup {f \in [k : {"output", "display"}, n : Nodes, m : Nodes] : f.m # f.n}
    \cup {f \in [k : {"input", "render"}, n : Nodes, m : NodeOrNone] : f.m # f.n}

NodeFeatures ==
    [k : {"bypassed", "noIsBypassed", "hardLocked", "noIsHardLocked",
          "lockedHDA", "manager", "vop", "sop"},
     n : Nodes, m : {None}]

ArgFeatures ==
    [k : {"no_respect_bypass", "no_respect_lock", "no_ignore_hda_locked",
          "no_include_root", "ignore_sop"},
     n : {None}, m : {None}]

Features == EdgeFeatures \cup NodeFeatures \cup ArgFeatures

\* The features in a fixed order: a scene is built by adding its features in
\* this order, so that each scene is built once.
RECURSIVE Enumerate(_)
Enumerate(S) ==
    IF S = {} THEN <<>>
    ELSE LET f == CHOOSE f \in S : TRUE IN <<f>> \o Enumerate(S \ {f})
FeatureList == Enumerate(Features)

\* The features of one area: cycles of connections and references, locked
\* inputs, child outputs of assets.
CycleFeature(f) ==
    \/ f.k \in {"ref", "bypassed", "no_respect_bypass", "no_include_root"}
    \/ f.k = "input" /\ f.m # None
LockFeature(f) == f.k \in {"input", "hardLocked", "noIsHardLocked", "no_respect_lock"}
AssetFeature(f) ==
    f.k \in {"output", "render", "display", "lockedHDA", "no_ignore_hda_locked"}
\* Loops of connections among bypassed nodes, and containers without a
\* render node.
LoopFeature(f) ==
    \/ f.k \in {"bypassed", "no_respect_bypass", "no_include_root"}
    \/ f.k = "input" /\ f.m # None
    \/ f.k = "render" /\ f.m = None

Has(F, k, n) == \E f \in F : f.k = k /\ f.n = n
Targets(F, k, n) == {f.m : f \in {g \in F : g.k = k /\ g.n = n}}

\* A set of features that describes one scene.
Consistent(F) ==
    \A n \in Nodes :
        /\ Cardinality(Targets(F, "render", n)) <= 1
        /\ Cardinality(Targets(F, "display", n)) <= 1
        /\ ~((Has(F, "output", n) \/ Has(F, "render", n)) /\ Has(F, "display", n))
        /\ ~(Has(F, "bypassed", n) /\ Has(F, "noIsBypassed", n))
        /\ ~(Has(F, "hardLocked", n) /\ Has(F, "noIsHardLocked", n))
        /\ ~(Has(F, "vop", n) /\ Has(F, "sop", n))

\* The scenes the traversal is run on: at most MaxFeatures features, or at
\* most FocusExtra features of one area; in the scope "loops", the latter with
\* the loop features only.
Allowed(F) ==
    /\ IF scope = "loops"
       THEN Cardinality(F) <= FocusExtra /\ \A f \in F : LoopFeature(f)
       ELSE \/ Cardinality(F) <= MaxFeatures
            \/ /\ Cardinality(F) <= FocusExtra
               /\ \/ \A f \in F : CycleFeature(f)
                  \/ \A f \in F : LockFeature(f)
                  \/ \A f \in F : AssetFeature(f)
    /\ Consistent(F)

\* What the host reports about the scene (hou.Node methods)

\* node.inputs(), None where a connector is empty
node_inputs(node) == SetToSeq(Targets(hou, "input", node))

\* node.outputs(): the nodes that have this node as an input
node_outputs(node) == SetToSeq({m \in Nodes : node \in Targets(hou, "input", m)})

\* the nodes that the parameters of node reference (find_parm_references)
parm_references(node) == Targets(hou, "ref", node)

\* node.childTypeCategory()
childTypeCategory(node) ==
    IF Has(hou, "output", node) \/ Has(hou, "render", node) THEN "Sop"
    ELSE IF Has(hou, "display", node) THEN "Dop" ELSE "Object"

\* the children of type 'output' whose outputidx is connected
connected_output_children(node) == SetToSeq(Targets(hou, "output", node))

\* node.renderNode(), node.displayNode()
renderNode(node) ==
    IF Targets(hou, "render", node) # {}
    THEN CHOOSE m \in Targets(hou, "render", node) : TRUE ELSE None
displayNode(node) ==
    IF Targets(hou, "display", node) # {}
    THEN CHOOSE m \in Targets(hou, "display", node) : TRUE ELSE None

\* node.isBypassed(), node.isHardLocked(): "yes", "no", or the node type has
\* no such method
isBypassed(node) ==
    IF Has(hou, "bypassed", node) THEN "yes"
    ELSE IF Has(hou, "noIsBypassed", node) THEN "AttributeError" ELSE "no"
isHardLocked(node) ==
    IF Has(hou, "hardLocked", node) THEN "yes"
    ELSE IF Has(hou, "noIsHardLocked", node) THEN "AttributeError" ELSE "no"

isLockedHDA(node) == Has(hou, "lockedHDA", node)
isManager(node) == Has(hou, "manager", node)

\* node.type().category()
category(node) ==
    IF Has(hou, "vop", node) THEN "Vop"
    ELSE IF Has(hou, "sop", node) THEN "Sop" ELSE "Object"

----------------------------------------------------------------------------
\* nodetools.py

\* node.path(): one path per node
Path(n) == <<"/obj", n>>

\* bypassed = True in the except branch
BypassedOnError(node) == isBypassed(node) # "no"

\* try: bypassed = node.isBypassed() / except AttributeError: bypassed = False
Bypassed(node) == isBypassed(node) = "yes"

\* self.inputs: the non-null inputs, without the hard-locked ones when
\* respect_lock; an input without isHardLocked() raises AttributeError inside
\* the comprehension, and the assignment is skipped as a whole.
Inputs(node, rl) ==
    LET present == SelectSeq(node_inputs(node), LAMBDA x : x # None)
    IN  IF rl /\ \A i \in DOMAIN present : isHardLocked(present[i]) # "AttributeError"
        THEN SelectSeq(present, LAMBDA x : isHardLocked(x) # "yes")
        ELSE present

\* self.outputs = [x for x in node.outputs() if x]
Outputs(node) == SelectSeq(node_outputs(node), LAMBDA x : x # None)

get_output_nodes(node) ==
    IF childTypeCategory(node) # "Sop" THEN <<>> ELSE connected_output_children(node)

get_child_output(node) ==
    LET outputs == get_output_nodes(node)
    IN  IF outputs # <<>> THEN outputs
        ELSE IF childTypeCategory(node) = "Sop" THEN <<renderNode(node)>>
        ELSE IF childTypeCategory(node) = "Dop" THEN <<displayNode(node)>>
        ELSE <<>>

\* list(all_refs): the nodes the parameters of node reference
find_node_references(node) == SetToSeq(parm_references(node))

\* NodeTraverse._get_references: [refs, traversed]
get_references(node, memo) ==
    LET path == Path(node)
        refs == DictGet(memo, path, <<>>)
        found == SelectSeq(find_node_references(node), LAMBDA n : ~(n = node))
    IN  IF refs = <<>>
        THEN [refs |-> found, traversed |-> [p \in {path} |-> found]]
        ELSE [refs |-> refs, traversed |-> EmptyDict]

\* ignore_categories = ignore_categories or []; VOP is appended when missing
IgnoreCategories(ic) ==
    IF "Vop" \notin Range(ic) THEN Append(ic, "Vop") ELSE ic

\* self.references and self.traversed
References(node, rb, memo) ==
    IF Bypassed(node) /\ rb
    THEN [refs |-> <<>>, traversed |-> EmptyDict]
    ELSE get_references(node, memo)

\* self.child_output: the test is on isLockedHDA() alone, the stored
\* ignore_hda_locked (ihl) is not read
ChildOutput(node, ihl) ==
    IF ~isLockedHDA(node) THEN get_child_output(node) ELSE <<>>

\* self.to_traverse without the inputs
ToTraverseNoInputs(references, inputs, child_output) == references \o child_output

\* self.to_traverse
ToTraverse(references, inputs, child_output) == references \o inputs \o child_output

\* NodeTraverse.__init__
NodeTraverse(node, rb, rl, ihl, ic, memo) ==
    LET r == References(node, rb, memo)
        inputs == Inputs(node, rl)
        outputs == Outputs(node)
        child_output == ChildOutput(node, ihl)
    IN  [node              |-> node,
         traversed         |-> r.traversed,
         inputs            |-> inputs,
         outputs           |-> outputs,
         connected         |-> inputs \o outputs,
         ignore_hda_locked |-> ihl,
         ignore_categories |-> IgnoreCategories(ic),
         references        |-> r.refs,
         child_output      |-> child_output,
         to_traverse       |-> ToTraverse(r.refs, inputs, child_output)]

\* for r in roots if not r.type().isManager()
Expandable(rs) == SelectSeq(rs, LAMBDA r : ~isManager(r))

\* to_traverse = [n for n in to_traverse if n.path() not in _traversed.keys()]
Unvisited(to_traverse, memo) ==
    SelectSeq(to_traverse, LAMBDA n : Path(n) \notin DOMAIN memo)

\* The for loop of traverse over traversed[i..]: the new roots, the memo, the
\* memo keys each element was filtered against, and whether None.path() raised.
RECURSIVE ForLoop(_, _, _)
ForLoop(ts, i, acc) ==
    IF i > Len(ts) THEN acc
    ELSE IF None \in Range(ts[i].to_traverse)
    THEN [acc EXCEPT !.raised = TRUE, !.memoAt = Append(@, DOMAIN acc.memo)]
    ELSE ForLoop(ts, i + 1,
                 [roots  |-> SetUpdate(acc.roots, Unvisited(ts[i].to_traverse, acc.memo)),
                  memo   |-> DictUpdate(acc.memo, ts[i].traversed),
                  memoAt |-> Append(acc.memoAt, DOMAIN acc.memo),
                  raised |-> FALSE])

\* The state a call of next() starts from: the first call runs the lines
\* before the loop (_traversed.clear(), roots = [root], skip_root).
curRoots == IF pc = "call" THEN <<root>> ELSE roots
curSkip == IF pc = "call" THEN ~include_root ELSE skip_root
curMemo == IF pc = "call" THEN EmptyDict ELSE _traversed

\* The body of "if skip_root:" for the current roots
Level ==
    LET ts == [i \in DOMAIN Expandable(curRoots) |->
                 NodeTraverse(Expandable(curRoots)[i], respect_bypass, respect_lock,
                              ignore_hda_locked, ignore_categories, curMemo)]
    IN  [ts |-> ts,
         out |-> ForLoop(ts, 1, [roots |-> <<>>, memo |-> curMemo,
                                  memoAt |-> <<>>, raised |-> FALSE])]

\* The caller's list is the one NodeTraverse appends VOP to.
CategoriesAfter ==
    IF Expandable(curRoots) # <<>> /\ ignore_categories # <<>>
    THEN IgnoreCategories(ignore_categories) ELSE ignore_categories

\* yield tup
Yield(tup) ==
    /\ yielded' = tup
    /\ began' = TRUE
    /\ first' = IF began THEN first ELSE tup
    /\ seen' = seen \cup Range(tup)
    /\ repeated' = repeated \cup (seen \cap Range(tup))
    /\ emptyBefore' = (emptyBefore \/ (began /\ yielded = <<>>))

\* The arguments of the call that are not the defaults, as features
ArgsChosen ==
    {f \in ArgFeatures :
        \/ f.k = "no_respect_bypass" /\ ~respect_bypass
        \/ f.k = "no_respect_lock" /\ ~respect_lock
        \/ f.k = "no_ignore_hda_locked" /\ ~ignore_hda_locked
        \/ f.k = "no_include_root" /\ ~include_root
        \/ f.k = "ignore_sop" /\ ignore_categories # <<>>}

\* The plain scene and traverse(root) with the default arguments; the root
\* is the first node (the features treat all nodes alike).
Start ==
    /\ hou = {}
    /\ root = 1
    /\ respect_bypass = TRUE
    /\ respect_lock = TRUE
    /\ ignore_hda_locked = TRUE
    /\ include_root = TRUE
    /\ ignore_categories = <<>>
    /\ _traversed = EmptyDict
    /\ roots = <<>>
    /\ skip_root = FALSE
    /\ traversed = <<>>
    /\ pc = "call"
    /\ yielded = <<>>
    /\ began = FALSE
    /\ first = <<>>
    /\ seen = {}
    /\ repeated = {}
    /\ emptyBefore = FALSE
    /\ memoAt = <<>>
    /\ source = <<>>
    /\ cursor = 0

Init == Start /\ scope = "all"

\* The scenes with loops of connections only
LoopsInit == Start /\ scope = "loops"

\* The host user edits the scene before the generator is started.
Edit ==
    /\ pc = "call"
    /\ \E i \in (cursor + 1)..Len(FeatureList) :
          LET f == FeatureList[i]
          IN  /\ f \notin ArgFeatures
              /\ Allowed(hou \cup ArgsChosen \cup {f})
              /\ hou' = hou \cup {f}
              /\ cursor' = i
    /\ UNCHANGED <<args, ignore_categories, _traversed, roots, skip_root, traversed,
                   pc, hist, scope>>

\* The caller passes an argument that is not the default.
Argument ==
    /\ pc = "call"
    /\ \E i \in (cursor + 1)..Len(FeatureList) :
          LET f == FeatureList[i]
          IN  /\ f \in ArgFeatures
              /\ Allowed(hou \cup ArgsChosen \cup {f})
              /\ respect_bypass' = (respect_bypass /\ f.k # "no_respect_bypass")
              /\ respect_lock' = (respect_lock /\ f.k # "no_respect_lock")
              /\ ignore_hda_locked' = (ignore_hda_locked /\ f.k # "no_ignore_hda_locked")
              /\ include_root' = (include_root /\ f.k # "no_include_root")
              /\ ignore_categories' = IF f.k = "ignore_sop" THEN <<"Sop">>
                                       ELSE ignore_categories
              /\ cursor' = i
    /\ UNCHANGED <<hou, root, _traversed, roots, skip_root, traversed, pc, hist, scope>>

\* next(): the loop iteration that yields the root level unexpanded
YieldRoot ==
    /\ pc \in {"call", "loop"}
    /\ curRoots # <<>>
    /\ ~curSkip
    /\ _traversed' = curMemo
    /\ roots' = curRoots
    /\ skip_root' = TRUE
    /\ pc' = "loop"
    /\ Yield(curRoots)
    /\ UNCHANGED <<hou, args, ignore_categories, traversed, memoAt, source, cursor, scope>>

\* next(): a loop iteration that expands the roots and yields the next level
Expand ==
    /\ pc \in {"call", "loop"}
    /\ curRoots # <<>>
    /\ curSkip
    /\ LET level == Level
       IN  /\ ~level.out.raised
           /\ \E order \in Orders(level.out.roots) :
                 /\ roots' = order
                 /\ Yield(order)
           /\ _traversed' = level.out.memo
           /\ traversed' = level.ts
           /\ memoAt' = level.out.memoAt
           /\ source' = curRoots
    /\ ignore_categories' = CategoriesAfter
    /\ skip_root' = TRUE
    /\ pc' = "loop"
    /\ UNCHANGED <<hou, args, cursor, scope>>

\* next(): a loop iteration in which None.path() raises AttributeError
Raise ==
    /\ pc \in {"call", "loop"}
    /\ curRoots # <<>>
    /\ curSkip
    /\ LET level == Level
       IN  /\ level.out.raised
           /\ _traversed' = level.out.memo
           /\ traversed' = level.ts
           /\ memoAt' = level.out.memoAt
           /\ source' = curRoots
    /\ ignore_categories' = CategoriesAfter
    /\ roots' = <<>>
    /\ skip_root' = TRUE
    /\ pc' = "raised"
    /\ UNCHANGED <<hou, args, yielded, began, first, seen, repeated, emptyBefore, cursor,
                   scope>>

\* next(): "while roots" fails, the generator is exhausted
Exhaust ==
    /\ pc = "loop"
    /\ roots = <<>>
    /\ pc' = "done"
    /\ UNCHANGED <<hou, args, ignore_categories, _traversed, roots, skip_root,
                   traversed, hist, cursor, scope>>

\* A call of next() on the generator
Resume == YieldRoot \/ Expand \/ Raise \/ Exhaust

Next == Edit \/ Argument \/ Resume

Spec == Init /\ [][Next]_vars

\* The consumer keeps calling next() until the generator stops.
FairSpec == LoopsInit /\ [][Next]_vars /\ WF_vars(Resume)

----------------------------------------------------------------------------
\* Claims

\* The nodes the last expansion constructed a NodeTraverse for
expanded == Expandable(source)

\* A level has been yielded by an expansion and the generator has not raised.
LevelYielded == pc \in {"loop", "done"} /\ source # <<>>

NonNullInputs(n) == Range(node_inputs(n)) \ {None}

\* C1: for every scene and every combination of the arguments the generator
\* stops after finitely many yields.
C1_Exhausted == <>(pc \in {"done", "raised"})

\* C2: no node appears in more than one yielded tuple of a run.
C2_NoNodeYieldedTwice == repeated = {}

\* C3 is stated for the default arguments and a scene without bypassed or
\* locked nodes.
C3_Applies ==
    /\ respect_bypass /\ respect_lock /\ ignore_hda_locked /\ include_root
    /\ ignore_categories = <<>>
    /\ \A n \in Nodes : isBypassed(n) # "yes" /\ isHardLocked(n) # "yes"

C4_IncludeRoot ==
    /\ (include_root /\ began) => first = <<root>>
    /\ ~include_root => root \notin seen

\* The references of an expanded node count unless it is bypassed and
\* respect_bypass is set.
ReferencesOf(n) ==
    IF respect_bypass /\ isBypassed(n) = "yes" THEN {} ELSE parm_references(n) \ {n}

\* C5: a level consists of the unvisited inputs and child outputs of the
\* expanded nodes and of the unvisited references of those expanded nodes that
\* are not bypassed under respect_bypass: a bypassed node contributes no
\* referenced node, its inputs and child outputs still; with respect_bypass
\* off, or without an isBypassed method, its references count as any node's.
C5_BypassDropsReferences ==
    LevelYielded =>
        \A x \in Nodes :
            x \in Range(yielded) <=>
                \E i \in DOMAIN expanded :
                    /\ x \in ReferencesOf(expanded[i])
                             \cup Range(Inputs(expanded[i], respect_lock))
                             \cup Range(ChildOutput(expanded[i], ignore_hda_locked))
                    /\ Path(x) \notin memoAt[i]

\* A bypassed node was expanded under respect_bypass: its input is in the
\* level yielded, the node it references is not.
C5_Witness ==
    /\ pc = "loop" /\ respect_bypass /\ Len(expanded) = 1
    /\ isBypassed(expanded[1]) = "yes"
    /\ \E x \in NonNullInputs(expanded[1]) : x \in Range(yielded)
    /\ \E x \in parm_references(expanded[1]) : x # expanded[1] /\ x \notin Range(yielded)

\* C6: under respect_lock no hard-locked input is among the inputs of an
\* expanded node; without it every non-null input is.
C6_LockedInputsIgnored ==
    \A i \in DOMAIN traversed :
        IF respect_lock
        THEN \A x \in Range(traversed[i].inputs) : isHardLocked(x) # "yes"
        ELSE Range(traversed[i].inputs) = NonNullInputs(traversed[i].node)

\* C7: the child outputs of a locked HDA are left out with ignore_hda_locked
\* and taken without it.
C7_HdaLockFlag ==
    \A i \in DOMAIN traversed :
        isLockedHDA(traversed[i].node) =>
            traversed[i].child_output =
                IF ignore_hda_locked THEN <<>> ELSE get_child_output(traversed[i].node)

\* C8: no node of an ignored category, VOP included, is in a tuple yielded
\* after the root level.
C8_CategoriesIgnored ==
    LevelYielded =>
        \A x \in Range(yielded) :
            category(x) \notin Range(ignore_categories) \cup {"Vop"}

====
